---- MODULE Spec2Model ----
(***************************************************************************)
(* A model of rapid.js' request builder (src/src/core/request.js) and of   *)
(* its CustomRoute URL templating (src/unnamed/part_000).                  *)
(*                                                                         *)
(* JavaScript values are tagged so that values of different JS types can   *)
(* be compared: a plain object is a function from its own keys to values,  *)
(* a string that the code inspects character by character (a URL, a route  *)
(* template) is a sequence of one-character strings.                       *)
(***************************************************************************)
EXTENDS Integers, Sequences, FiniteSets, TLC

VARIABLES
    config,       \* this.config: debug, allowedRequestTypes, trailingSlash
    requestData,  \* this.requestData: the session's data / params / options
    urlParams,    \* this.urlParams: the pending positional URL params
    reqs,         \* one record per call of request(): its position and event trace
    supplied,     \* the log of calls that the session, entry and overlap runs keep
    tpl,          \* the route definition under resolution (route templating runs)
    rparams,      \* the routeParams handed to the resolution
    resolved      \* what the resolution returned

vars == <<config, requestData, urlParams, reqs, supplied, tpl, rparams, resolved>>

(***************************************************************************)
(* Bounds of the model.                                                    *)
(***************************************************************************)
MaxRequests == 2
MaxConfigCalls == 2
MaxPending == 1
MaxParts == 3

(***************************************************************************)
(* JavaScript values.                                                      *)
(***************************************************************************)
EmptyObj == <<>>

V(n) == [t |-> "v", v |-> n, o |-> EmptyObj]

O(f) == [t |-> "o", v |-> 0, o |-> f]

IsObject(x) == x.t = "o"

(***************************************************************************)
(* Configuration (this.config).  allowedRequestTypes holds lower-case verb *)
(* names; the default list is the one applyCallableRequestMethods names.   *)
(***************************************************************************)
DefaultRequestTypes == {"get", "post", "put", "patch", "head", "delete"}

Configs ==
    [debug : BOOLEAN,
     allowedRequestTypes : {DefaultRequestTypes, {"get", "post"}},
     trailingSlash : {FALSE}]

\* isAllowedRequestType(type, config) of utils/request
isAllowedRequestType(type, cfg) == type \in cfg.allowedRequestTypes

\* String.prototype.toLowerCase on the verb strings the model hands to request()
toLowerCase(s) ==
    CASE s = "GET" -> "get"
      [] s = "POST" -> "post"
      [] s = "PUT" -> "put"
      [] s = "PATCH" -> "patch"
      [] s = "HEAD" -> "head"
      [] s = "DELETE" -> "delete"
      [] s = "Delete" -> "delete"
      [] s = "TRACE" -> "trace"
      [] OTHER -> s

(***************************************************************************)
(* The session: requestData and the pending positional urlParams.          *)
(***************************************************************************)
\* Core.resetRequestData: fresh empty containers
resetRequestData ==
    ("data" :> O(EmptyObj) @@ "params" :> O(EmptyObj) @@ "options" :> O(EmptyObj))

\* Core.resetURLParams: no pending positional params
resetURLParams == <<>>

\* lodash defaultsDeep(object, source): object's own values win, source fills
\* the keys object lacks, recursively where both values are objects
RECURSIVE defaultsDeep(_, _)
defaultsDeep(object, source) ==
    [k \in (DOMAIN object) \cup (DOMAIN source) |->
        IF k \notin DOMAIN object THEN source[k]
        ELSE IF k \notin DOMAIN source THEN object[k]
        ELSE IF IsObject(object[k]) /\ IsObject(source[k])
             THEN O(defaultsDeep(object[k].o, source[k].o))
             ELSE object[k]]

\* withData with the arguments of defaultsDeep swapped: the accumulated data win
withDataResult_ExistingWins(data, rd) == defaultsDeep(rd, data)

\* withData(data): this.requestData = defaultsDeep(data, this.requestData)
withDataResult(data, rd) == defaultsDeep(data, rd)

\* withParams that keeps the keys already set and only adds the new ones
withParamsResult_KeepsExisting(params, rd) ==
    [k \in (DOMAIN rd) \cup {"params"} |->
        IF k = "params" THEN O(rd["params"].o @@ params) ELSE rd[k]]

\* withParams(params): this.requestData.params = params
withParamsResult(params, rd) == [k \in (DOMAIN rd) \cup {"params"} |->
                                    IF k = "params" THEN O(params) ELSE rd[k]]

\* withParam that stores the one key as the whole params object
withParamResult_Replaces(key, value, rd) == withParamsResult((key :> value), rd)

\* withParam(key, value): this.requestData.params[key] = value
withParamResult(key, value, rd) ==
    [rd EXCEPT !["params"] = O((key :> value) @@ rd["params"].o)]

\* withOptions(options): this.requestData.options = options
withOptionsResult(options, rd) == [k \in (DOMAIN rd) \cup {"options"} |->
                                      IF k = "options" THEN O(options) ELSE rd[k]]

\* withOption(key, value): this.requestData.options[key] = value
withOptionResult(key, value, rd) ==
    [rd EXCEPT !["options"] = O((key :> value) @@ rd["options"].o)]

(***************************************************************************)
(* Strings as sequences of characters, and the String methods CustomRoute  *)
(* uses on them.                                                           *)
(***************************************************************************)
IsWordChar(c) == c \in {"a", "b", "x", "7", "u", "n", "d", "e", "f", "i", "."}

IsSpace(c) == c = " "

\* the index of the first character at or after i that fails P-ness, for
\* P = word character (w = TRUE) or white space (w = FALSE)
RECURSIVE SkipRun(_, _, _)
SkipRun(s, i, w) ==
    IF i > Len(s) THEN i
    ELSE IF (w /\ IsWordChar(s[i])) \/ (~w /\ IsSpace(s[i])) THEN SkipRun(s, i + 1, w)
    ELSE i

\* /{\s*[\w\.]+\s*}/ anchored at i: [from, to, name] of the match, or to = 0
MatchAt(s, i) ==
    LET j == SkipRun(s, i + 1, FALSE)
        k == SkipRun(s, j, TRUE)
        m == SkipRun(s, k, FALSE)
    IN  IF i <= Len(s) /\ s[i] = "{" /\ k > j /\ m <= Len(s) /\ s[m] = "}"
        THEN [to |-> m, name |-> SubSeq(s, j, k - 1)]
        ELSE [to |-> 0, name |-> <<>>]

\* rawURL.match(/{\s*[\w\.]+\s*}/g) mapped by x => x.match(/[\w\.]+/)[0]:
\* the names of the successive non-overlapping matches, left to right
RECURSIVE MatchAll(_, _)
MatchAll(s, i) ==
    IF i > Len(s) THEN <<>>
    ELSE LET m == MatchAt(s, i)
         IN  IF m.to = 0 THEN MatchAll(s, i + 1)
             ELSE <<m.name>> \o MatchAll(s, m.to + 1)

\* String.prototype.indexOf: the first position of pat in s, 0 when absent
RECURSIVE IndexFrom(_, _, _)
IndexFrom(s, pat, i) ==
    IF i + Len(pat) - 1 > Len(s) THEN 0
    ELSE IF SubSeq(s, i, i + Len(pat) - 1) = pat THEN i
    ELSE IndexFrom(s, pat, i + 1)

\* GetSubstitution for a string pattern: $$ and $& in the replacement (the
\* replacement values of the model hold no other $ pattern)
RECURSIVE GetSubstitution(_, _)
GetSubstitution(rep, matched) ==
    IF rep = <<>> THEN <<>>
    ELSE IF rep[1] = "$" /\ Len(rep) >= 2 /\ rep[2] \in {"$", "&"}
         THEN (IF rep[2] = "$" THEN <<"$">> ELSE matched)
              \o GetSubstitution(SubSeq(rep, 3, Len(rep)), matched)
         ELSE <<rep[1]>> \o GetSubstitution(Tail(rep), matched)

\* String.prototype.replace(pat, rep) with a string pattern: first occurrence only
StringReplace(s, pat, rep) ==
    LET i == IndexFrom(s, pat, 1)
    IN  IF i = 0 THEN s
        ELSE LET before == SubSeq(s, 1, i - 1)
                 after == SubSeq(s, i + Len(pat), Len(s))
             IN  before \o GetSubstitution(rep, pat) \o after

\* ToString(undefined), what replace() makes of a missing routeParams entry
UndefinedString == <<"u", "n", "d", "e", "f", "i", "n", "e", "d">>

(***************************************************************************)
(* CustomRoute.                                                            *)
(***************************************************************************)
\* the RequestType enum of ./request: RequestType[member] is the name of the verb
RequestType == [GET |-> "GET", POST |-> "POST", PUT |-> "PUT",
                PATCH |-> "PATCH", HEAD |-> "HEAD", DELETE |-> "DELETE"]

\* Object.assign(target, source) on two plain objects
ObjectAssign(target, source) ==
    [k \in (DOMAIN target) \cup (DOMAIN source) |->
        IF k \in DOMAIN source THEN source[k] ELSE target[k]]

\* new CustomRoute(route, config)
CustomRoute(route, cfg) ==
    [route |-> ObjectAssign([url |-> <<>>, type |-> "GET", name |-> ""], route),
     config |-> ObjectAssign([routeParams |-> EmptyObj], cfg)]

\* get rawURL
rawURL(cr) == cr.route.url

\* get urlParams
routeUrlParams(cr) == MatchAll(rawURL(cr), 1)

\* the forEach of replaceURLParams over the first n extracted names
RECURSIVE ReplaceEach(_, _, _, _)
ReplaceEach(url, names, routeParams, n) ==
    IF n = 0 THEN url
    ELSE LET prev == ReplaceEach(url, names, routeParams, n - 1)
             param == names[n]
         IN  StringReplace(prev, <<"{">> \o param \o <<"}">>,
                           IF param \in DOMAIN routeParams
                           THEN routeParams[param] ELSE UndefinedString)

\* replaceURLParams()
replaceURLParams(cr) ==
    LET names == routeUrlParams(cr)
    IN  IF Len(names) # 0 /\ DOMAIN cr.config.routeParams # {}
        THEN ReplaceEach(rawURL(cr), names, cr.config.routeParams, Len(names))
        ELSE rawURL(cr)

\* get url
routeUrl(cr) == replaceURLParams(cr)

\* get name
routeName(cr) == cr.route.name

\* get type
routeType(cr) == RequestType[cr.route.type]

(***************************************************************************)
(* Collaborators of Request: URL building, sanitizing, argument shaping.   *)
(***************************************************************************)
\* Core.makeUrl(...params): the segments joined by "/"
RECURSIVE makeUrl(_)
makeUrl(segs) ==
    IF segs = <<>> THEN <<>>
    ELSE IF Len(segs) = 1 THEN segs[1]
    ELSE segs[1] \o <<"/">> \o makeUrl(Tail(segs))

\* sanitizeUrl(url, trailingSlash) of utils/url
sanitizeUrl(url, trailingSlash) ==
    LET bare == IF url # <<>> /\ url[Len(url)] = "/"
                THEN SubSeq(url, 1, Len(url) - 1) ELSE url
    IN  IF trailingSlash THEN bare \o <<"/">> ELSE bare

\* parseRequestData(type, requestData, config) of utils/request: the transport
\* arguments after the URL, body first for the body-carrying verbs
parseRequestData(type, rd, cfg) ==
    LET arg(k) == [arg |-> k, val |-> rd[k].o]
    IN  IF type \in {"post", "put", "patch"}
        THEN <<arg("data"), arg("params"), arg("options")>>
        ELSE <<arg("params"), arg("options"), arg("data")>>

\* config.customRoutes
customRoutes ==
    ("user" :> [url |-> <<"/", "{", "a", "}">>, type |-> "GET", name |-> "user"]
     @@ "remove" :> [url |-> <<"/", "x">>, type |-> "DELETE"])

\* config.baseURL
baseURL == <<"h">>

(***************************************************************************)
(* Request: one call of request() is one record of reqs.                   *)
(*   pc      threw: the verb was refused; fake: the debugger answered;      *)
(*           pending: the transport was called and has not settled;         *)
(*           then / catch: that callback of the promise chain is queued;    *)
(*           done: the chain has run                                        *)
(*   trace   the calls made on behalf of this request, in order             *)
(*   tstate, tval   the transport promise; pstate, pval   the returned one  *)
(*   cval    the rejection reason on its way to the catch callback          *)
(***************************************************************************)
Ev(e, a) == [e |-> e, a |-> a]

Responses == {"r1"}

Errors == {"e1"}

\* what a throwing config.afterRequest / config.onError callback throws
ThrownByAfterRequest == "xAfter"

ThrownByOnError == "xError"

\* the before hook that never reaches config.beforeRequest
beforeRequest_NotCalled(type, url) == <<>>

\* beforeRequest(type, url): return this.config.beforeRequest(type, url)
beforeRequest(type, url) == <<Ev("beforeRequest", type)>>

\* the record of a call of request() that has made no call yet
newRequest(via, type, url) ==
    [via |-> via, type |-> type, url |-> url, pc |-> "threw",
     trace |-> <<>>, sentUrl |-> <<>>, sent |-> <<>>,
     tstate |-> "none", tval |-> "", cval |-> "",
     pstate |-> "none", pval |-> ""]

\* the dispatch that calls the transport whatever config.debug says
dispatch_IgnoresDebug(r, t, rd, cfg) ==
    [r EXCEPT !.pc = "pending",
              !.trace = beforeRequest(t, r.url) \o <<Ev("http", t)>>,
              !.sentUrl = sanitizeUrl(r.url, cfg.trailingSlash),
              !.sent = parseRequestData(t, rd, cfg),
              !.tstate = "pending",
              !.pstate = "pending"]

\* request(type, url) from the before hook on: the debugger's fake request, or
\* the transport call inside the new promise
dispatch(r, t, rd, cfg) ==
    IF cfg.debug
    THEN [r EXCEPT !.pc = "fake",
                   !.trace = beforeRequest(t, r.url) \o <<Ev("fakeRequest", t)>>,
                   !.pstate = "fake"]
    ELSE [r EXCEPT !.pc = "pending",
                   !.trace = beforeRequest(t, r.url) \o <<Ev("http", t)>>,
                   !.sentUrl = sanitizeUrl(r.url, cfg.trailingSlash),
                   !.sent = parseRequestData(t, rd, cfg),
                   !.tstate = "pending",
                   !.pstate = "pending"]

\* request() that fires the before hook first and validates the verb after it
request_HookBeforeValidation(via, type, url, rd, cfg) ==
    LET t == toLowerCase(type)
    IN  IF ~isAllowedRequestType(t, cfg)
        THEN [newRequest(via, type, url) EXCEPT !.trace = beforeRequest(t, url)]
        ELSE dispatch(newRequest(via, type, url), t, rd, cfg)

\* request() that also refuses to send to the empty URL
request_RefusesEmptyUrl(via, type, url, rd, cfg) ==
    LET t == toLowerCase(type)
    IN  IF ~isAllowedRequestType(t, cfg) \/ url = <<>>
        THEN newRequest(via, type, url)
        ELSE dispatch(newRequest(via, type, url), t, rd, cfg)

\* request(type, url), up to the return of the promise
request(via, type, url, rd, cfg) ==
    LET t == toLowerCase(type)
    IN  IF ~isAllowedRequestType(t, cfg)
        THEN newRequest(via, type, url)
        ELSE dispatch(newRequest(via, type, url), t, rd, cfg)

\* afterRequest that clears the URL params and forgets resetRequestData
afterRequest_KeepsData(response, threw) ==
    [requestData |-> requestData,
     urlParams |-> resetURLParams,
     events |-> <<Ev("resetURLParams", ""), Ev("afterRequest", response)>>,
     threw |-> threw]

\* afterRequest(response); threw: whether config.afterRequest throws
afterRequest(response, threw) ==
    [requestData |-> resetRequestData,
     urlParams |-> resetURLParams,
     events |-> <<Ev("resetRequestData", ""), Ev("resetURLParams", ""),
                  Ev("afterRequest", response)>>,
     threw |-> threw]

\* onError that clears the URL params and forgets resetRequestData
onError_KeepsData(error, threw) ==
    [requestData |-> requestData,
     urlParams |-> resetURLParams,
     events |-> <<Ev("resetURLParams", ""), Ev("onError", error)>>,
     threw |-> threw]

\* onError(error); threw: whether config.onError throws
onError(error, threw) ==
    [requestData |-> resetRequestData,
     urlParams |-> resetURLParams,
     events |-> <<Ev("resetRequestData", ""), Ev("resetURLParams", ""),
                  Ev("onError", error)>>,
     threw |-> threw]

\* resolve(value) / reject(reason) of the returned promise: the first one wins
settle(r, how, value) ==
    IF r.pstate = "pending"
    THEN [r EXCEPT !.pstate = how, !.pval = value,
                   !.trace = @ \o <<Ev(IF how = "resolved" THEN "resolve" ELSE "reject", value)>>]
    ELSE r

\* .then(response => { this.afterRequest(response); resolve(response); })
thenCallback(r, threw) ==
    LET h == afterRequest(r.tval, threw)
        ran == [r EXCEPT !.trace = @ \o h.events]
    IN  [requestData |-> h.requestData,
         urlParams |-> h.urlParams,
         req |-> IF h.threw
                 THEN [ran EXCEPT !.pc = "catch", !.cval = ThrownByAfterRequest]
                 ELSE [settle(ran, "resolved", r.tval) EXCEPT !.pc = "done"]]

\* a catch callback that calls the transport again instead of giving up
catchCallback_Retries(r, threw) ==
    [requestData |-> requestData,
     urlParams |-> urlParams,
     req |-> [r EXCEPT !.pc = "pending", !.tstate = "pending",
                       !.trace = @ \o <<Ev("http", toLowerCase(r.type))>>]]

\* .catch(error => { this.onError(error); reject(error); })
catchCallback(r, threw) ==
    LET h == onError(r.cval, threw)
        ran == [r EXCEPT !.trace = @ \o h.events]
    IN  [requestData |-> h.requestData,
         urlParams |-> h.urlParams,
         req |-> IF h.threw
                 THEN [ran EXCEPT !.pc = "done", !.cval = ThrownByOnError]
                 ELSE [settle(ran, "rejected", r.cval) EXCEPT !.pc = "done"]]

\* buildRequest that puts the new positional params before the pending ones
buildRequest_NewFirst(type, params, pending) ==
    [urlParams |-> resetURLParams, url |-> makeUrl(params \o pending)]

\* buildRequest(type, urlParams): the pending params first, then cleared
buildRequest(type, params, pending) ==
    [urlParams |-> resetURLParams, url |-> makeUrl(pending \o params)]

\* getCustomRoute whose fallback route is built from the name asked for
getCustomRoute_NamedFallback(name, routeParams) ==
    IF name \in DOMAIN customRoutes
    THEN CustomRoute(customRoutes[name], [routeParams |-> routeParams])
    ELSE CustomRoute([name |-> name], [routeParams |-> routeParams])

\* getCustomRoute(name, routeParams)
getCustomRoute(name, routeParams) ==
    IF name \in DOMAIN customRoutes
    THEN CustomRoute(customRoutes[name], [routeParams |-> routeParams])
    ELSE CustomRoute(EmptyObj, EmptyObj)

\* generate(name, routeParams)
generate(name, routeParams) ==
    LET url == routeUrl(getCustomRoute(name, routeParams))
    IN  IF url # <<>> THEN makeUrl(<<baseURL, url>>) ELSE <<>>

(***************************************************************************)
(* Inputs of the runs.                                                     *)
(***************************************************************************)
\* verb strings handed to request() directly
TypeInputs == {"post", "Delete", "TRACE"}

DirectUrl == <<"/", "x">>

\* the verb methods the runs call, and their positional arguments
VerbInputs == {"get"}

Segments == {<<"u">>}

PositionalInputs == {<<>>, <<<<"7">>>>}

\* arguments of withData / withParams in the request life cycle runs
MainData == {("data" :> O("a" :> V(1)))}

MainParams == {("q" :> V(1))}

\* arguments of route()
RouteNames == {"user", "remove", "nope"}

RouteParamInputs == {(<<"a">> :> <<"7">>)}

RequestParamInputs == {EmptyObj, ("q" :> V(2))}

\* arguments of the entry runs: the types handed to request() and to
\* buildRequest() directly, the positional arguments of buildRequest(), the
\* routeParams of route(), and one withData argument with data and options
EntryTypes == {"Delete", "TRACE"}

EntryPositional == {<<<<"7">>>>}

EntryRouteParams == {EmptyObj, (<<"a">> :> <<"7">>)}

EntryData == {("data" :> O("a" :> V(1)) @@ "options" :> O("h" :> V(1)))}

\* arguments of withData / withParams in the session runs
DataInputs ==
    {("a" :> V(1)), ("a" :> V(2)), ("b" :> V(2)),
     ("params" :> O("p" :> V(1))), ("params" :> O("p" :> V(2) @@ "q" :> V(1))),
     ("data" :> O("a" :> V(1)) @@ "a" :> V(3)),
     ("options" :> O("h" :> V(1)))}

ParamInputs == {EmptyObj, ("q" :> V(1)), ("p" :> V(3))}

\* arguments of withParam / withOptions / withOption in the session runs
ParamKeys == {"p", "q"}

OptionInputs == {EmptyObj, ("h" :> V(2)), ("t" :> V(3))}

OptionKeys == {"h", "t"}

ScalarInputs == {V(1), V(7)}

\* route templates: up to MaxParts of these fragments, concatenated
Fragments ==
    {<<"/">>, <<"{">>, <<"}">>,
     <<"{", "a", "}">>, <<"{", "b", "}">>, <<"{", " ", "a", "}">>}

RECURSIVE Templates(_)
Templates(n) ==
    IF n = 0 THEN {<<>>}
    ELSE LET shorter == Templates(n - 1)
         IN  shorter \cup {t \o f : t \in shorter, f \in Fragments}

\* routeParams values: a plain value, one that is itself a placeholder, and
\* one that holds a replacement pattern
ParamValues == {<<"7">>, <<"{", "b", "}">>, <<"$", "&">>}

RouteParamMaps ==
    UNION {[ks -> ParamValues] : ks \in SUBSET {<<"a">>, <<"b">>}}

NoResult == [op |-> "none", name |-> "", url |-> <<>>, type |-> "", rname |-> ""]

(***************************************************************************)
(* The request life cycle.                                                 *)
(***************************************************************************)
Init ==
    /\ config \in Configs
    /\ requestData = resetRequestData
    /\ urlParams = resetURLParams
    /\ reqs = <<>>
    /\ supplied = <<>>
    /\ tpl = <<>>
    /\ rparams = EmptyObj
    /\ resolved = NoResult

routeVars == <<tpl, rparams, resolved>>

\* withData(data)
withData(data) ==
    /\ requestData' = withDataResult(data, requestData)
    /\ UNCHANGED <<config, urlParams, reqs, routeVars>>

\* withParams(params)
withParams(params) ==
    /\ requestData' = withParamsResult(params, requestData)
    /\ UNCHANGED <<config, urlParams, reqs, routeVars>>

\* withParam(key, value)
withParam(key, value) ==
    /\ requestData' = withParamResult(key, value, requestData)
    /\ UNCHANGED <<config, urlParams, reqs, routeVars>>

\* withOptions(options)
withOptions(options) ==
    /\ requestData' = withOptionsResult(options, requestData)
    /\ UNCHANGED <<config, urlParams, reqs, routeVars>>

\* withOption(key, value)
withOption(key, value) ==
    /\ requestData' = withOptionResult(key, value, requestData)
    /\ UNCHANGED <<config, urlParams, reqs, routeVars>>

\* positional params left pending on the session for the next built request
pendUrlParams(params) ==
    /\ Len(urlParams) < MaxPending
    /\ urlParams' = urlParams \o params
    /\ UNCHANGED <<config, requestData, reqs, supplied, routeVars>>

\* a direct call of request(type, url)
callRequest(type, url) ==
    /\ Len(reqs) < MaxRequests
    /\ reqs' = Append(reqs, request("request", type, url, requestData, config))
    /\ UNCHANGED <<config, requestData, urlParams, supplied, routeVars>>

\* this[requestType](...urlParams), one of the methods applyCallableRequestMethods adds
callVerb(requestType, params) ==
    /\ Len(reqs) < MaxRequests
    /\ requestType \in config.allowedRequestTypes
    /\ LET b == buildRequest(requestType, params, urlParams)
       IN  /\ urlParams' = b.urlParams
           /\ reqs' = Append(reqs, request("verb", requestType, b.url, requestData, config))
    /\ UNCHANGED <<config, requestData, supplied, routeVars>>

\* route(name, routeParams, requestParams)
route(name, routeParams, requestParams) ==
    /\ Len(reqs) < MaxRequests
    /\ LET r == getCustomRoute(name, routeParams)
           set == DOMAIN requestParams # {}
           rd == IF set THEN withParamsResult(requestParams, requestData) ELSE requestData
       IN  /\ requestData' = rd
           /\ reqs' = Append(reqs, request("route", routeType(r), routeUrl(r), rd, config))
    /\ UNCHANGED <<config, urlParams, routeVars>>

\* the transport promise of request i is fulfilled with response
transportResolve(i, response) ==
    /\ reqs[i].pc = "pending"
    /\ reqs' = [reqs EXCEPT ![i] = [@ EXCEPT !.pc = "then", !.tstate = "ok",
                                              !.tval = response]]
    /\ UNCHANGED <<config, requestData, urlParams, supplied, routeVars>>

\* the transport promise of request i is rejected with error
transportReject(i, error) ==
    /\ reqs[i].pc = "pending"
    /\ reqs' = [reqs EXCEPT ![i] = [@ EXCEPT !.pc = "catch", !.tstate = "err",
                                              !.tval = error, !.cval = error]]
    /\ UNCHANGED <<config, requestData, urlParams, supplied, routeVars>>

\* the then callback of request i runs
runThen(i, threw) ==
    /\ reqs[i].pc = "then"
    /\ LET c == thenCallback(reqs[i], threw)
       IN  /\ requestData' = c.requestData
           /\ urlParams' = c.urlParams
           /\ reqs' = [reqs EXCEPT ![i] = c.req]
    /\ UNCHANGED <<config, routeVars>>

\* the catch callback of request i runs
runCatch(i, threw) ==
    /\ reqs[i].pc = "catch"
    /\ LET c == catchCallback(reqs[i], threw)
       IN  /\ requestData' = c.requestData
           /\ urlParams' = c.urlParams
           /\ reqs' = [reqs EXCEPT ![i] = c.req]
    /\ UNCHANGED <<config, routeVars>>

Next ==
    \/ \E d \in MainData : withData(d) /\ UNCHANGED supplied
    \/ \E p \in MainParams : withParams(p) /\ UNCHANGED supplied
    \/ \E s \in Segments : pendUrlParams(<<s>>)
    \/ \E t \in TypeInputs : callRequest(t, DirectUrl)
    \/ \E t \in VerbInputs, ps \in PositionalInputs : callVerb(t, ps)
    \/ \E n \in RouteNames, rp \in RouteParamInputs, qp \in RequestParamInputs :
          route(n, rp, qp) /\ UNCHANGED supplied
    \/ \E i \in DOMAIN reqs, r \in Responses : transportResolve(i, r)
    \/ \E i \in DOMAIN reqs, e \in Errors : transportReject(i, e)
    \/ \E i \in DOMAIN reqs, threw \in BOOLEAN : runThen(i, threw) /\ UNCHANGED supplied
    \/ \E i \in DOMAIN reqs, threw \in BOOLEAN : runCatch(i, threw) /\ UNCHANGED supplied

Spec == Init /\ [][Next]_vars

(***************************************************************************)
(* Session runs: the with... calls between two resets, logged in supplied. *)
(***************************************************************************)
InitSession ==
    /\ config = [debug |-> FALSE, allowedRequestTypes |-> DefaultRequestTypes,
                 trailingSlash |-> FALSE]
    /\ requestData = resetRequestData
    /\ urlParams = resetURLParams
    /\ reqs = <<>>
    /\ supplied = <<>>
    /\ tpl = <<>>
    /\ rparams = EmptyObj
    /\ resolved = NoResult

Logged(op, arg) ==
    /\ Len(supplied) < MaxConfigCalls
    /\ supplied' = Append(supplied, [op |-> op, arg |-> arg])

\* the reset that afterRequest and onError perform
sessionReset ==
    /\ requestData' = resetRequestData
    /\ urlParams' = resetURLParams
    /\ supplied' = <<>>
    /\ UNCHANGED <<config, reqs, routeVars>>

NextSession ==
    \/ \E d \in DataInputs : withData(d) /\ Logged("withData", d)
    \/ \E p \in ParamInputs : withParams(p) /\ Logged("withParams", p)
    \/ \E k \in ParamKeys, v \in ScalarInputs :
          withParam(k, v) /\ Logged("withParam", (k :> v))
    \/ \E o \in OptionInputs : withOptions(o) /\ Logged("withOptions", o)
    \/ \E k \in OptionKeys, v \in ScalarInputs :
          withOption(k, v) /\ Logged("withOption", (k :> v))
    \/ sessionReset

SpecSession == InitSession /\ [][NextSession]_vars

(***************************************************************************)
(* Entry runs: the synchronous part of the calls that start a request      *)
(* (request, buildRequest, route) on a configured session,                 *)
(* with the arguments of the last route() call kept in supplied.           *)
(***************************************************************************)
InitEntry ==
    /\ config \in {c \in Configs : ~c.debug}
    /\ requestData = resetRequestData
    /\ urlParams = resetURLParams
    /\ reqs = <<>>
    /\ supplied = <<>>
    /\ tpl = <<>>
    /\ rparams = EmptyObj
    /\ resolved = NoResult

\* a direct call of buildRequest(type, urlParams)
callBuildRequest(type, params) ==
    /\ Len(reqs) < MaxRequests
    /\ LET b == buildRequest(type, params, urlParams)
       IN  /\ urlParams' = b.urlParams
           /\ reqs' = Append(reqs, request("buildRequest", type, b.url, requestData, config))
    /\ UNCHANGED <<config, requestData, supplied, routeVars>>

NextEntry ==
    \/ \E d \in EntryData : withData(d) /\ UNCHANGED supplied
    \/ \E p \in MainParams : withParams(p) /\ UNCHANGED supplied
    \/ \E s \in Segments : pendUrlParams(<<s>>)
    \/ \E t \in EntryTypes : callRequest(t, DirectUrl)
    \/ \E t \in EntryTypes, ps \in EntryPositional : callBuildRequest(t, ps)
    \/ \E n \in RouteNames, rp \in EntryRouteParams, qp \in RequestParamInputs :
          /\ route(n, rp, qp)
          /\ supplied' = <<[op |-> "route",
                            arg |-> [name |-> n, routeParams |-> rp, requestParams |-> qp]]>>

SpecEntry == InitEntry /\ [][NextEntry]_vars

(***************************************************************************)
(* Overlap runs: requests on one builder, configured and issued with or    *)
(* without waiting for the promise of the one before.  supplied logs each  *)
(* with... call with the request it was made for (the next one issued) and *)
(* whether a returned promise was still unsettled when it was made.        *)
(***************************************************************************)
InitOverlap ==
    /\ config = [debug |-> FALSE, allowedRequestTypes |-> DefaultRequestTypes,
                 trailingSlash |-> FALSE]
    /\ requestData = resetRequestData
    /\ urlParams = resetURLParams
    /\ reqs = <<>>
    /\ supplied = <<>>
    /\ tpl = <<>>
    /\ rparams = EmptyObj
    /\ resolved = NoResult

\* some promise returned by request() has not settled
InFlight == \E j \in DOMAIN reqs : reqs[j].pstate = "pending"

LoggedFor(op, arg) ==
    /\ Len(supplied) < MaxConfigCalls
    /\ supplied' = Append(supplied, [op |-> op, arg |-> arg,
                                      for |-> Len(reqs) + 1, inflight |-> InFlight])

NextOverlap ==
    \/ \E d \in MainData : withData(d) /\ LoggedFor("withData", d)
    \/ \E p \in MainParams : withParams(p) /\ LoggedFor("withParams", p)
    \/ callRequest("post", DirectUrl)
    \/ \E i \in DOMAIN reqs, r \in Responses : transportResolve(i, r)
    \/ \E i \in DOMAIN reqs, e \in Errors : transportReject(i, e)
    \/ \E i \in DOMAIN reqs, threw \in BOOLEAN : runThen(i, threw) /\ UNCHANGED supplied
    \/ \E i \in DOMAIN reqs, threw \in BOOLEAN : runCatch(i, threw) /\ UNCHANGED supplied

SpecOverlap == InitOverlap /\ [][NextOverlap]_vars

\* the queued then / catch callback of request i runs: a callback of a settled
\* promise is a job of the microtask queue, which the event loop always drains
runQueued(i) ==
    /\ i \in DOMAIN reqs
    /\ \E threw \in BOOLEAN : (runThen(i, threw) \/ runCatch(i, threw))
    /\ UNCHANGED supplied

SpecOverlapFair == SpecOverlap /\ \A i \in 1..MaxRequests : WF_vars(runQueued(i))

(***************************************************************************)
(* Route runs: one template and one routeParams map, resolved.             *)
(***************************************************************************)
InitRoute ==
    /\ config = [debug |-> FALSE, allowedRequestTypes |-> DefaultRequestTypes,
                 trailingSlash |-> FALSE]
    /\ requestData = resetRequestData
    /\ urlParams = resetURLParams
    /\ reqs = <<>>
    /\ supplied = <<>>
    /\ tpl \in Templates(MaxParts)
    /\ rparams \in RouteParamMaps
    /\ resolved = NoResult

sessionVars == <<config, requestData, urlParams, reqs, supplied>>

\* new CustomRoute({ url: tpl }, { routeParams }).url
resolveUrl ==
    /\ LET r == CustomRoute([url |-> tpl], [routeParams |-> rparams])
       IN  resolved' = [op |-> "url", name |-> "", url |-> routeUrl(r),
                        type |-> routeType(r), rname |-> routeName(r)]
    /\ UNCHANGED <<sessionVars, tpl, rparams>>

\* getCustomRoute(name, routeParams), and the getters of what it returns
lookupRoute(name) ==
    /\ LET r == getCustomRoute(name, rparams)
       IN  resolved' = [op |-> "getCustomRoute", name |-> name, url |-> routeUrl(r),
                        type |-> routeType(r), rname |-> routeName(r)]
    /\ UNCHANGED <<sessionVars, tpl, rparams>>

\* generate(name, routeParams)
callGenerate(name) ==
    /\ resolved' = [op |-> "generate", name |-> name,
                    url |-> generate(name, rparams), type |-> "", rname |-> ""]
    /\ UNCHANGED <<sessionVars, tpl, rparams>>

NextRoute ==
    \/ resolveUrl
    \/ \E n \in RouteNames : lookupRoute(n)
    \/ \E n \in RouteNames : callGenerate(n)

SpecRoute == InitRoute /\ [][NextRoute]_vars

(***************************************************************************)
(* Properties of the request life cycle (Spec).                            *)
(***************************************************************************)
Count(trace, e) == Cardinality({j \in DOMAIN trace : trace[j].e = e})

Carried(r) == \E k \in DOMAIN r.sent : r.sent[k].val # EmptyObj

SessionIsEmpty(rd, pending) ==
    /\ rd["data"].o = EmptyObj
    /\ rd["params"].o = EmptyObj
    /\ rd["options"].o = EmptyObj
    /\ pending = <<>>

\* C1: whenever a completion callback of a request has run (afterRequest on
\* transport success, onError on failure), data, params and options are empty
\* containers and no positional urlParams are pending.
C1_SessionEmptyAfterCompletion ==
    [][\A i \in DOMAIN reqs :
          (reqs[i].pc \in {"then", "catch"} /\ reqs'[i].pc # reqs[i].pc)
          => SessionIsEmpty(requestData', urlParams')]_vars

\* two requests that carried session state to the transport, one resolved and
\* one rejected, and an empty session after them
C1_Witness ==
    /\ \E i, j \in DOMAIN reqs :
          /\ reqs[i].pc = "done" /\ reqs[i].pstate = "resolved" /\ Carried(reqs[i])
          /\ reqs[j].pc = "done" /\ reqs[j].pstate = "rejected" /\ Carried(reqs[j])
    /\ SessionIsEmpty(requestData, urlParams)

\* C2: every request that was dispatched and has run its promise chain reset
\* the session exactly once.
C2_ResetExactlyOnce ==
    \A i \in DOMAIN reqs :
        reqs[i].pc = "done"
        => /\ Count(reqs[i].trace, "resetRequestData") = 1
           /\ Count(reqs[i].trace, "resetURLParams") = 1

\* C3: a call of request() whose lower-cased type is not in the allow-list
\* throws: it returns no promise, and calls neither the before hook, nor the
\* fake request, nor the transport.
C3_DisallowedTypeThrows ==
    \A i \in DOMAIN reqs :
        toLowerCase(reqs[i].type) \notin config.allowedRequestTypes
        => /\ reqs[i].pc = "threw"
           /\ reqs[i].trace = <<>>
           /\ reqs[i].pstate = "none"
           /\ reqs[i].tstate = "none"

\* a refused direct call and a refused call made through route()
C3_Witness ==
    \E i, j \in DOMAIN reqs :
        /\ reqs[i].via = "request" /\ reqs[i].pc = "threw"
        /\ reqs[j].via = "route" /\ reqs[j].pc = "threw"

\* C4: a request that passed the verb validation has called the before hook
\* exactly once, with the lower-cased type, as its first call, and the
\* transport (the fake request in debug mode) right after it, in the same step.
C4_BeforeHookOnceBeforeDispatch ==
    \A i \in DOMAIN reqs :
        reqs[i].pc # "threw"
        => /\ Len(reqs[i].trace) >= 2
           /\ reqs[i].trace[1] = Ev("beforeRequest", toLowerCase(reqs[i].type))
           /\ reqs[i].trace[2].e = (IF config.debug THEN "fakeRequest" ELSE "http")
           /\ Count(reqs[i].trace, "beforeRequest") = 1
           /\ Count(reqs[i].trace, "http") + Count(reqs[i].trace, "fakeRequest") = 1

\* a debug-mode request answered by the fake request
C4_Witness ==
    /\ config.debug
    /\ \E i \in DOMAIN reqs : reqs[i].pc = "fake" /\ reqs[i].via = "verb"

\* the position of the first event e of a trace, 0 when there is none
FirstEv(trace, e) ==
    IF \E j \in DOMAIN trace : trace[j].e = e
    THEN CHOOSE j \in DOMAIN trace :
            trace[j].e = e /\ \A k \in 1..(j - 1) : trace[k].e # e
    ELSE 0

\* C5: a request whose transport call succeeded with r is never rejected, and
\* once its chain has run, afterRequest has fired with r and then the returned
\* promise has resolved with r.
C5_SuccessResolvesWithResponse ==
    \A i \in DOMAIN reqs :
        reqs[i].tstate = "ok"
        => /\ reqs[i].pstate # "rejected"
           /\ reqs[i].pc = "done"
              => /\ reqs[i].pstate = "resolved"
                 /\ reqs[i].pval = reqs[i].tval
                 /\ Ev("afterRequest", reqs[i].tval) \in
                       {reqs[i].trace[j] : j \in DOMAIN reqs[i].trace}
                 /\ FirstEv(reqs[i].trace, "afterRequest")
                       < FirstEv(reqs[i].trace, "resolve")

\* C6: a request whose transport call was rejected with e is never resolved,
\* and once its chain has run, onError has fired with e and then the returned
\* promise has been rejected with e.
C6_FailureRejectsWithError ==
    \A i \in DOMAIN reqs :
        reqs[i].tstate = "err"
        => /\ reqs[i].pstate # "resolved"
           /\ reqs[i].pc = "done"
              => /\ reqs[i].pstate = "rejected"
                 /\ reqs[i].pval = reqs[i].tval
                 /\ Ev("onError", reqs[i].tval) \in
                       {reqs[i].trace[j] : j \in DOMAIN reqs[i].trace}
                 /\ FirstEv(reqs[i].trace, "onError")
                       < FirstEv(reqs[i].trace, "reject")

\* C12: a request built by a verb method is built on the URL made of the
\* pending urlParams followed by the new positional arguments, and in the very
\* step of the build, before the transport settles, the pending urlParams are
\* emptied, so the next build does not see them again.
C12_PendingParamsConsumedByBuild ==
    [][(Len(reqs') = Len(reqs) + 1 /\ reqs'[Len(reqs')].via = "verb")
       => /\ \E ps \in PositionalInputs :
                reqs'[Len(reqs')].url = makeUrl(urlParams \o ps)
          /\ urlParams' = <<>>
          /\ reqs'[Len(reqs')].pc = "pending" => reqs'[Len(reqs')].tstate = "pending"]_vars

\* a first verb request built from a pending param and a new one, still in
\* flight, and a second verb request built from its own argument only
C12_Witness ==
    /\ Len(reqs) = 2
    /\ reqs[1].via = "verb" /\ reqs[1].url = <<"u", "/", "7">> /\ reqs[1].pc = "pending"
    /\ reqs[2].via = "verb" /\ reqs[2].url = <<"7">>
    /\ urlParams = <<>>

\* C13: with debug on, a request that passed validation has called the before
\* hook and then fakeRequest, whose result is what request() returned, and the
\* transport is never called; with debug off, fakeRequest is never called.
C13_DebugReplacesTransport ==
    \A i \in DOMAIN reqs :
        reqs[i].pc # "threw"
        => IF config.debug
           THEN /\ reqs[i].trace = <<Ev("beforeRequest", toLowerCase(reqs[i].type)),
                                      Ev("fakeRequest", toLowerCase(reqs[i].type))>>
                /\ reqs[i].pc = "fake"
                /\ reqs[i].pstate = "fake"
                /\ reqs[i].tstate = "none"
                /\ reqs[i].sent = <<>>
           ELSE /\ Count(reqs[i].trace, "fakeRequest") = 0
                /\ reqs[i].pstate # "fake"

\* debug on: a direct request and a route request both answered by fakeRequest
C13_Witness ==
    /\ config.debug
    /\ \E i, j \in DOMAIN reqs :
          /\ reqs[i].via = "request" /\ reqs[i].pc = "fake"
          /\ reqs[j].via = "route" /\ reqs[j].pc = "fake"

\* C14: with debug off, a request that passed validation has called the
\* transport method of its verb exactly once, in the step of the call of
\* request() itself (it never waits for another request of the builder), and
\* never calls it again, whatever the outcome.
C14_TransportCalledOncePerRequest ==
    ~config.debug
    => \A i \in DOMAIN reqs :
          reqs[i].pc # "threw"
          => /\ Count(reqs[i].trace, "http") = 1
             /\ FirstEv(reqs[i].trace, "http") = 2
             /\ reqs[i].trace[2].a = toLowerCase(reqs[i].type)
             /\ reqs[i].tstate \in {"pending", "ok", "err"}

\* the second request was sent, rejected and has run its chain while the
\* transport call of the first is still pending
C14_Witness ==
    /\ Len(reqs) = 2
    /\ reqs[1].pc = "pending"
    /\ reqs[2].pc = "done" /\ reqs[2].tstate = "err"
    /\ Count(reqs[2].trace, "http") = 1

\* C16: a route() call whose name is not configured (the only one that
\* resolves to the empty URL) makes a GET request to the empty URL that is
\* not refused, fires the before hook and calls the transport (the fake
\* request in debug mode) once, and once its chain has run has fired the hook
\* of its outcome: afterRequest on success, onError on failure.
C16_UnknownRouteIsDispatched ==
    \A i \in DOMAIN reqs :
        (reqs[i].via = "route" /\ reqs[i].url = <<>>)
        => /\ reqs[i].type = "GET"
           /\ reqs[i].pc # "threw"
           /\ reqs[i].trace[1] = Ev("beforeRequest", "get")
           /\ reqs[i].trace[2] = Ev(IF config.debug THEN "fakeRequest" ELSE "http", "get")
           /\ Count(reqs[i].trace, "http") + Count(reqs[i].trace, "fakeRequest") = 1
           /\ reqs[i].sentUrl = <<>>
           /\ (reqs[i].pc = "done" /\ reqs[i].tstate = "ok")
                 => Ev("afterRequest", reqs[i].tval) \in
                       {reqs[i].trace[j] : j \in DOMAIN reqs[i].trace}
           /\ (reqs[i].pc = "done" /\ reqs[i].tstate = "err")
                 => Ev("onError", reqs[i].tval) \in
                       {reqs[i].trace[j] : j \in DOMAIN reqs[i].trace}

\* two requests to an unknown route, one resolved and one rejected
C16_Witness ==
    \E i, j \in DOMAIN reqs :
        /\ reqs[i].via = "route" /\ reqs[i].url = <<>> /\ reqs[i].pstate = "resolved"
        /\ reqs[j].via = "route" /\ reqs[j].url = <<>> /\ reqs[j].pstate = "rejected"
        /\ reqs[j].pval \in Errors

\* C18: a request fires at most one completion hook at any time, and once its
\* chain has run it has fired exactly one, once: afterRequest and no onError
\* when the transport succeeded, onError and no afterRequest when it failed.
C18_ExactlyOneCompletionHook ==
    \A i \in DOMAIN reqs :
        /\ Count(reqs[i].trace, "afterRequest") + Count(reqs[i].trace, "onError") <= 1
        /\ (reqs[i].pc = "done" /\ reqs[i].tstate = "ok")
              => /\ Count(reqs[i].trace, "afterRequest") = 1
                 /\ Count(reqs[i].trace, "onError") = 0
        /\ (reqs[i].pc = "done" /\ reqs[i].tstate = "err")
              => /\ Count(reqs[i].trace, "onError") = 1
                 /\ Count(reqs[i].trace, "afterRequest") = 0

(***************************************************************************)
(* Properties of route resolution (SpecRoute).                             *)
(***************************************************************************)
Braced(name) == <<"{">> \o name \o <<"}">>

Occurs(pat, s) ==
    \E i \in 1..Len(s) :
        i + Len(pat) - 1 <= Len(s) /\ SubSeq(s, i, i + Len(pat) - 1) = pat

\* s from position i on, with every placeholder whose name is a key of P
\* replaced by P[name] and every other character kept
RECURSIVE Substituted(_, _, _)
Substituted(s, i, P) ==
    IF i > Len(s) THEN <<>>
    ELSE LET m == MatchAt(s, i)
         IN  IF m.to = 0 THEN <<s[i]>> \o Substituted(s, i + 1, P)
             ELSE (IF m.name \in DOMAIN P THEN P[m.name] ELSE SubSeq(s, i, m.to))
                  \o Substituted(s, m.to + 1, P)

\* C7: resolving a template with a non-empty routeParams leaves every {name}
\* whose name is not a key of routeParams in the resolved URL.
C7_MissingParamLeftLiteral ==
    (resolved.op = "url" /\ DOMAIN rparams # {})
    => \A name \in {<<"a">>, <<"b">>} \ DOMAIN rparams :
          Occurs(Braced(name), tpl) => Occurs(Braced(name), resolved.url)

\* C8: resolving a template all of whose placeholders are keys of a non-empty
\* routeParams replaces every placeholder occurrence by its value.
C8_EveryOccurrenceReplaced ==
    (/\ resolved.op = "url"
     /\ DOMAIN rparams # {}
     /\ \A j \in DOMAIN MatchAll(tpl, 1) : MatchAll(tpl, 1)[j] \in DOMAIN rparams)
    => resolved.url = Substituted(tpl, 1, rparams)

\* C9: the route got for a name that is not configured has the empty url,
\* the empty name and type GET, whatever the routeParams, and generate()
\* returns the empty string for it.
C9_UnknownRouteIsEmpty ==
    (resolved.op \in {"getCustomRoute", "generate"}
     /\ resolved.name \notin {"user", "remove"})
    => /\ resolved.url = <<>>
       /\ resolved.op = "getCustomRoute"
          => resolved.rname = "" /\ resolved.type = "GET"

\* an unknown name looked up with routeParams that are not empty
C9_Witness ==
    /\ resolved.op = "getCustomRoute"
    /\ resolved.name = "nope"
    /\ DOMAIN rparams # {}

(***************************************************************************)
(* Properties of the session accumulation (SpecSession).                   *)
(***************************************************************************)
RECURSIVE LeafPaths(_)
LeafPaths(obj) ==
    UNION {IF IsObject(obj[k])
           THEN {<<k>> \o q : q \in LeafPaths(obj[k].o)}
           ELSE {<<k>>} : k \in DOMAIN obj}

RECURSIVE ValueAt(_, _)
ValueAt(obj, path) ==
    IF Len(path) = 1 THEN obj[path[1]] ELSE ValueAt(obj[path[1]].o, Tail(path))

OnlyWithData == \A i \in DOMAIN supplied : supplied[i].op = "withData"

SuppliedPaths == UNION {LeafPaths(supplied[i].arg) : i \in DOMAIN supplied}

Suppliers(path) == {i \in DOMAIN supplied : path \in LeafPaths(supplied[i].arg)}

\* C10 (as amended): after withData calls only, the accumulated data hold
\* exactly the values supplied, each with the value of the last call that
\* supplied it.
C10_LaterWithDataWins ==
    OnlyWithData
    => /\ LeafPaths(requestData) = SuppliedPaths
       /\ \A path \in SuppliedPaths :
             LET last == CHOOSE i \in Suppliers(path) : \A j \in Suppliers(path) : j <= i
             IN  ValueAt(requestData, path) = ValueAt(supplied[last].arg, path)

\* two withData calls that supply one key with two different values
C10_Witness ==
    /\ Len(supplied) = 2
    /\ OnlyWithData
    /\ \E path \in LeafPaths(supplied[1].arg) \cap LeafPaths(supplied[2].arg) :
          ValueAt(supplied[1].arg, path) # ValueAt(supplied[2].arg, path)

\* C10 (as claimed): after withData calls only, the accumulated data hold
\* exactly the values supplied, each with the value of the first call that
\* supplied it.
C10_EarlierWithDataWins ==
    OnlyWithData
    => /\ LeafPaths(requestData) = SuppliedPaths
       /\ \A path \in SuppliedPaths :
             LET first == CHOOSE i \in Suppliers(path) : \A j \in Suppliers(path) : i <= j
             IN  ValueAt(requestData, path) = ValueAt(supplied[first].arg, path)

\* the session field a params / options setter writes
FieldOf(op) == IF op \in {"withParams", "withParam"} THEN "params" ELSE "options"

\* C11: withParams(p) / withOptions(o) make the params / options exactly p / o;
\* withParam(k, v) / withOption(k, v) set key k to v and keep every other key
\* of that map; each of the four leaves the other session fields and the
\* pending urlParams as they were and starts no request.
C11_SettersWriteOnlyTheirField ==
    [][(/\ Len(supplied') = Len(supplied) + 1
        /\ supplied'[Len(supplied')].op \in
              {"withParams", "withParam", "withOptions", "withOption"})
       => LET c == supplied'[Len(supplied')]
              field == FieldOf(c.op)
              old == requestData[field].o
              new == requestData'[field].o
          IN  /\ DOMAIN requestData' = DOMAIN requestData
              /\ \A f \in DOMAIN requestData \ {field} : requestData'[f] = requestData[f]
              /\ urlParams' = urlParams
              /\ reqs' = reqs
              /\ c.op \in {"withParams", "withOptions"} => new = c.arg
              /\ c.op \in {"withParam", "withOption"}
                    => /\ DOMAIN new = (DOMAIN old) \cup (DOMAIN c.arg)
                       /\ \A k \in DOMAIN c.arg : new[k] = c.arg[k]
                       /\ \A k \in (DOMAIN old) \ (DOMAIN c.arg) : new[k] = old[k]]_vars

\* params replaced as a whole and then one other key added by withParam
C11_Witness ==
    /\ Len(supplied) = 2
    /\ supplied[1].op = "withParams"
    /\ supplied[2].op = "withParam"
    /\ DOMAIN supplied[1].arg # {}
    /\ (DOMAIN supplied[1].arg) \cap (DOMAIN supplied[2].arg) = {}
    /\ DOMAIN requestData["params"].o = (DOMAIN supplied[1].arg) \cup (DOMAIN supplied[2].arg)

(***************************************************************************)
(* Properties of the calls that start a request (SpecEntry).               *)
(***************************************************************************)
\* the transport argument named k of a dispatched request
SentArg(r, k) == (CHOOSE j \in DOMAIN r.sent : r.sent[j].arg = k)

\* C15: a route() call with non-empty requestParams makes them the session
\* params and the dispatched request carries exactly them; with empty
\* requestParams the session params stay as accumulated and are the ones
\* dispatched; data and options are not touched, and the request is made with
\* the verb and the URL of the resolved route.
C15_RouteAppliesRequestParams ==
    [][(Len(reqs') = Len(reqs) + 1 /\ reqs'[Len(reqs')].via = "route")
       => LET c == supplied'[1].arg
              r == reqs'[Len(reqs')]
              cr == getCustomRoute(c.name, c.routeParams)
              expected == IF DOMAIN c.requestParams # {}
                          THEN c.requestParams ELSE requestData["params"].o
          IN  /\ r.type = routeType(cr)
              /\ r.url = routeUrl(cr)
              /\ requestData'["params"].o = expected
              /\ \A f \in DOMAIN requestData \ {"params"} : requestData'[f] = requestData[f]
              /\ DOMAIN requestData' = DOMAIN requestData
              /\ r.pc = "pending"
                    => /\ r.sent[SentArg(r, "params")].val = expected
                       /\ r.trace[2] = Ev("http", toLowerCase(routeType(cr)))
                       /\ r.sentUrl = sanitizeUrl(routeUrl(cr), config.trailingSlash)]_vars

\* a route request sent with the params accumulated before it, and a second
\* one sent with its own requestParams in their place
C15_Witness ==
    /\ Len(reqs) = 2
    /\ reqs[1].via = "route" /\ reqs[1].pc = "pending"
    /\ reqs[1].sent[SentArg(reqs[1], "params")].val = ("q" :> V(1))
    /\ reqs[2].via = "route" /\ reqs[2].pc = "pending"
    /\ reqs[2].sent[SentArg(reqs[2], "params")].val = ("q" :> V(2))
    /\ supplied[1].arg.requestParams = ("q" :> V(2))
    /\ reqs[2].url = <<"/", "7">>

\* C20: a call that is refused by the verb validation, made through
\* request(), buildRequest() or route(), leaves data, params, options and the
\* pending urlParams as they were before the call.
C20_RefusalLeavesSessionUntouched ==
    [][(Len(reqs') = Len(reqs) + 1 /\ reqs'[Len(reqs')].pc = "threw")
       => /\ requestData' = requestData
          /\ urlParams' = urlParams]_vars

(***************************************************************************)
(* Properties of overlapping requests (SpecOverlap).                       *)
(***************************************************************************)
\* the session that the first k logged calls made for request n build on an
\* empty session
RECURSIVE ConfiguredFor(_, _)
ConfiguredFor(n, k) ==
    IF k = 0 THEN resetRequestData
    ELSE LET prev == ConfiguredFor(n, k - 1)
             c == supplied[k]
         IN  IF c.for # n THEN prev
             ELSE IF c.op = "withData" THEN withDataResult(c.arg, prev)
             ELSE withParamsResult(c.arg, prev)

\* request n was sent with something else than the session configured for it
SentOtherThanConfigured(r, n) ==
    /\ r.pc # "threw"
    /\ r.sent # parseRequestData(toLowerCase(r.type),
                                 ConfiguredFor(n, Len(supplied)), config)

\* C17: a request is sent with session data other than those configured for
\* it only if a promise returned earlier was still unsettled when it was
\* issued or when one of its with... calls was made; a request configured and
\* issued after every earlier promise has settled is sent with exactly what
\* was configured for it.
C17_OnlyOverlapClobbers ==
    [][(Len(reqs') = Len(reqs) + 1)
       => LET n == Len(reqs')
          IN  SentOtherThanConfigured(reqs'[n], n)
              => \/ InFlight
                 \/ \E k \in DOMAIN supplied : supplied[k].for = n /\ supplied[k].inflight]_vars

\* the second request, issued while the first one is in flight, carries the
\* data configured for the first one on top of its own params
C17_Witness ==
    /\ Len(reqs) = 2
    /\ SentOtherThanConfigured(reqs[2], 2)
    /\ \E k \in DOMAIN supplied : supplied[k].for = 1 /\ supplied[k].op = "withData"
    /\ reqs[2].sent[SentArg(reqs[2], "data")].val = ("a" :> V(1))
    /\ reqs[2].sent[SentArg(reqs[2], "params")].val = ("q" :> V(1))
    /\ reqs[1].pc # "done"

\* C19: once the transport promise of a request has settled, the promise that
\* request() returned eventually settles too (resolved or rejected), whether
\* or not the configured callbacks throw.
C19_ReturnedPromiseSettles ==
    \A i \in 1..MaxRequests :
        (i \in DOMAIN reqs /\ reqs[i].tstate \in {"ok", "err"})
        ~> (i \in DOMAIN reqs /\ reqs[i].pstate \in {"resolved", "rejected"})

====
